---- MODULE Spec2Model ----
(***************************************************************************)
(* Model of src/src/lib.rs: the HTTP request dispatcher `request`, its     *)
(* seven shorthands, and the accessors of HttpResponse.                    *)
(*                                                                         *)
(* Strings whose letter case matters (method names, header names) are      *)
(* sequences of one-character strings, so that to_uppercase and            *)
(* to_lowercase are computed character by character.  Option<T> is a       *)
(* sequence of length at most one: None is <<>>, Some(x) is <<x>>.         *)
(*                                                                         *)
(* The transport (the ureq crate) is the environment: what the network     *)
(* answers is chosen nondeterministically, and what ureq does with a       *)
(* request builder or a response is modelled at the place where lib.rs     *)
(* calls it.                                                               *)
(***************************************************************************)
EXTENDS Integers, Sequences, FiniteSets, TLC

VARIABLES pc, op, callerHeaders, method, url, headers, body, timeout,
          req, exchanges, raw, ret, got

vars == <<pc, op, callerHeaders, method, url, headers, body, timeout,
          req, exchanges, raw, ret, got>>

\* ------------------------------------------------------------ bounds
\* Largest number of entries in a header mapping passed by the caller.
MaxReqHeaders == 2
\* Largest number of header lines in a response delivered by the transport.
MaxRespHeaders == 2
\* Largest number of tokens in an exhaustively enumerated response body.
MaxBodyLen == 5

\* ------------------------------------------------------------ options
None == <<>>
Some(x) == <<x>>
IsSome(o) == Len(o) = 1
IsNone(o) == Len(o) = 0
Unwrap(o) == o[1]

\* ------------------------------------------------------------ letter case
LowerLetters == <<"a","b","c","d","e","f","g","h","i","j","k","l","m",
                  "n","o","p","q","r","s","t","u","v","w","x","y","z">>
UpperLetters == <<"A","B","C","D","E","F","G","H","I","J","K","L","M",
                  "N","O","P","Q","R","S","T","U","V","W","X","Y","Z">>

UpperChar(c) ==
    IF \E i \in 1..Len(LowerLetters) : LowerLetters[i] = c
    THEN UpperLetters[CHOOSE i \in 1..Len(LowerLetters) : LowerLetters[i] = c]
    ELSE c

LowerChar(c) ==
    IF \E i \in 1..Len(UpperLetters) : UpperLetters[i] = c
    THEN LowerLetters[CHOOSE i \in 1..Len(UpperLetters) : UpperLetters[i] = c]
    ELSE c

to_uppercase(s) == [i \in 1..Len(s) |-> UpperChar(s[i])]
to_lowercase(s) == [i \in 1..Len(s) |-> LowerChar(s[i])]

\* ------------------------------------------------------------ verbs
GET == <<"G","E","T">>
POST == <<"P","O","S","T">>
PUT == <<"P","U","T">>
DELETE == <<"D","E","L","E","T","E">>
PATCH == <<"P","A","T","C","H">>
HEAD == <<"H","E","A","D">>
OPTIONS == <<"O","P","T","I","O","N","S">>

\* The match on method.to_uppercase(): Some(verb) when an arm builds a
\* transport request, None for the `_` arm.
ResolveDefaultsToGet(m) ==
    LET up == to_uppercase(m)
    IN  IF up \in {GET, POST, PUT, DELETE, PATCH, HEAD} THEN Some(up) ELSE Some(GET)

ResolveMethod(m) ==
    LET up == to_uppercase(m)
    IN  IF up \in {GET, POST, PUT, DELETE, PATCH, HEAD} THEN Some(up) ELSE None

\* ------------------------------------------------------------ timeout
\* A u64 is four 16-bit limbs, least significant first.
Limb == 2^16
I32Max == 2147483647
I32Min == -I32Max - 1

\* `timeout_secs as u64` zero-extending (as if cast through u32).
as_u64_zero_extended(t) ==
    <<t % Limb, (t \div Limb) % Limb, 0, 0>>

\* `timeout_secs as u64`: an i32 is sign-extended to 64 bits.
as_u64(t) ==
    <<t % Limb, (t \div Limb) % Limb,
      IF t < 0 THEN Limb - 1 ELSE 0, IF t < 0 THEN Limb - 1 ELSE 0>>

\* Duration::from_secs keeps the 64-bit number of whole seconds.
from_secs(secs) == secs

\* The timeout of every shorthand.
ShorthandTimeout == 30

\* ------------------------------------------------------------ request headers
ContentTypeLower == <<"c","o","n","t","e","n","t","-","t","y","p","e">>
ContentTypeExact == <<"C","o","n","t","e","n","t","-","T","y","p","e">>
ContentTypeUpper == <<"C","O","N","T","E","N","T","-","T","Y","P","E">>
XId == <<"X","-","I","d">>
ApplicationJson == "application/json"

\* HashMap::new() and HashMap::insert / contains_key on a String-keyed map.
EmptyMap == [k \in {} |-> ""]
insert(map, k, v) == [x \in (DOMAIN map) \cup {k} |-> IF x = k THEN v ELSE map[x]]
contains_key(map, k) == k \in DOMAIN map

\* headers.unwrap_or_default()
unwrap_or_default(h) == IF IsSome(h) THEN Unwrap(h) ELSE EmptyMap

\* The content-type default checking the exact spelling only.
ContentTypeDefaultExactOnly(final_headers) ==
    IF ~contains_key(final_headers, ContentTypeExact)
    THEN insert(final_headers, ContentTypeExact, ApplicationJson)
    ELSE final_headers

\* post/put/patch: insert Content-Type: application/json unless the map
\* holds the key "content-type" or the key "Content-Type".
ContentTypeDefault(final_headers) ==
    IF ~contains_key(final_headers, ContentTypeLower)
       /\ ~contains_key(final_headers, ContentTypeExact)
    THEN insert(final_headers, ContentTypeExact, ApplicationJson)
    ELSE final_headers

\* ureq's Request::set: a header whose name does not start with x- or X-
\* replaces the headers of exactly that name; the header is appended.
StartsWithX(name) == Len(name) >= 2 /\ name[1] \in {"x", "X"} /\ name[2] = "-"
set(hs, key, value) ==
    LET kept == IF StartsWithX(key) THEN hs
                ELSE SelectSeq(hs, LAMBDA h : h[1] # key)
    IN  Append(kept, <<key, value>>)

\* `for (key, value) in headers_map { req = req.set(&key, &value) }`, the
\* map iterated in the order `order` (HashMap iteration order is arbitrary).
RECURSIVE ApplyHeaders(_, _, _)
ApplyHeaders(hs, map, order) ==
    IF order = <<>> THEN hs
    ELSE ApplyHeaders(set(hs, Head(order), map[Head(order)]), map, Tail(order))

\* Every order in which a map with key set S can be iterated.
Orders(S) ==
    {o \in [1..Cardinality(S) -> S] : \A i, j \in 1..Cardinality(S) : i # j => o[i] # o[j]}

\* ------------------------------------------------------------ transport
\* What the network does with one exchange: it fails, or it delivers a
\* response (status line, header lines in wire order, body).  A body of None
\* is one that cannot be read into a String.
NoCause == [source |-> "", status |-> 0, msg |-> ""]
Failed(msg) ==
    [kind |-> "fail", msg |-> msg, status |-> 0, headers |-> <<>>, body |-> None]
Delivered(status, hdrs, b) ==
    [kind |-> "http", msg |-> "", status |-> status, headers |-> hdrs, body |-> b]

\* ureq's Request::call / send_string: Err(Transport) when the exchange
\* fails, Err(Status) when the delivered status is 400 or more, Ok otherwise.
call(outcome) ==
    IF outcome.kind = "fail"
    THEN [resp |-> None,
          error |-> Some([source |-> "Transport", status |-> 0, msg |-> outcome.msg])]
    ELSE IF outcome.status >= 400
    THEN [resp |-> None,
          error |-> Some([source |-> "Status", status |-> outcome.status, msg |-> ""])]
    ELSE [resp |-> Some(outcome), error |-> None]

\* `if let Some(body_data) = body { req.send_string(..) } else { req.call() }`
Send(r, b, outcome) ==
    [req |-> [r EXCEPT !.body = b], exchanges |-> 1, response |-> call(outcome)]

\* ------------------------------------------------------------ response
NonText == "\\xff"
IsText(v) == v # NonText

\* ureq's Response::headers_names: every header line's name, lower-cased.
headers_names(resp) == [i \in 1..Len(resp.headers) |-> to_lowercase(resp.headers[i][1])]

\* ureq's Response::header: the value of the first header line of that name
\* (names compared ignoring case), None when there is no such line or its
\* value is not text.
header(resp, name) ==
    LET hits == {i \in 1..Len(resp.headers) :
                    to_lowercase(resp.headers[i][1]) = to_lowercase(name)}
    IN  IF hits = {} THEN None
        ELSE LET first == CHOOSE i \in hits : \A j \in hits : i <= j
             IN  IF IsText(resp.headers[first][2]) THEN Some(resp.headers[first][2])
                 ELSE None

\* A collection that stores each header line's own value.
RECURSIVE CollectLines(_, _, _)
CollectLines(resp, i, acc) ==
    IF i > Len(resp.headers) THEN acc
    ELSE CollectLines(resp, i + 1,
            IF IsText(resp.headers[i][2])
            THEN insert(acc, to_lowercase(resp.headers[i][1]), resp.headers[i][2])
            ELSE acc)
CollectHeadersPerLine(resp) == CollectLines(resp, 1, EmptyMap)

\* `for header_name in resp.headers_names() { if let Some(v) =
\* resp.header(&header_name) { headers.insert(header_name.to_lowercase(), v) } }`
RECURSIVE CollectNames(_, _, _)
CollectNames(resp, names, acc) ==
    IF names = <<>> THEN acc
    ELSE LET v == header(resp, Head(names))
         IN  CollectNames(resp, Tail(names),
                IF IsSome(v) THEN insert(acc, to_lowercase(Head(names)), Unwrap(v))
                ELSE acc)
CollectHeaders(resp) == CollectNames(resp, headers_names(resp), EmptyMap)

\* resp.into_string()
into_string(resp) == resp.body

\* ------------------------------------------------------------ errors
PhpException(kind, m, cause) == [kind |-> kind, method |-> m, cause |-> cause]
Ok(r) == [resp |-> Some(r), err |-> None]
Err(e) == [resp |-> None, err |-> Some(e)]

\* A result that hands back the status and headers together with the error.
FinishWithPartial(response) ==
    IF IsSome(response.error)
    THEN Err(PhpException("HttpRequestFailed", <<>>, Unwrap(response.error)))
    ELSE LET resp == Unwrap(response.resp)
             b == into_string(resp)
             partial == [status |-> resp.status, headers |-> CollectHeaders(resp),
                         body |-> IF IsSome(b) THEN Unwrap(b) ELSE ""]
         IN  IF IsNone(b)
             THEN [resp |-> Some(partial),
                   err |-> Some(PhpException("ResponseBodyError", <<>>, NoCause))]
             ELSE Ok(partial)

\* `match response { Ok(resp) => ..., Err(e) => ... }`
Finish(response) ==
    IF IsSome(response.error)
    THEN Err(PhpException("HttpRequestFailed", <<>>, Unwrap(response.error)))
    ELSE LET resp == Unwrap(response.resp)
             status == resp.status
             hdrs == CollectHeaders(resp)
             b == into_string(resp)
         IN  IF IsNone(b)
             THEN Err(PhpException("ResponseBodyError", <<>>, NoCause))
             ELSE Ok([status |-> status, headers |-> hdrs, body |-> Unwrap(b)])

\* ------------------------------------------------------------ request
\* The whole of `request`: what it builds, how often it exchanges, what the
\* transport answered and what it returns.
request(m, u, h, b, t, order, outcome) ==
    LET verb == ResolveMethod(m)
    IN  IF IsNone(verb)
        THEN [req |-> None, exchanges |-> 0, raw |-> None,
              ret |-> Err(PhpException("UnsupportedMethod", m, NoCause))]
        ELSE LET r0 == [method |-> Unwrap(verb), url |-> u, timeout |-> None,
                        headers |-> <<>>, body |-> None]
                 r1 == IF IsSome(t)
                       THEN [r0 EXCEPT !.timeout = Some(from_secs(as_u64(Unwrap(t))))]
                       ELSE r0
                 r2 == IF IsSome(h)
                       THEN [r1 EXCEPT !.headers = ApplyHeaders(<<>>, Unwrap(h), order)]
                       ELSE r1
                 sent == Send(r2, b, outcome)
             IN  [req |-> Some(sent.req), exchanges |-> sent.exchanges,
                  raw |-> Some(outcome), ret |-> Finish(sent.response)]

\* One call of the dispatcher from the entry point `name`, the caller having
\* passed the header argument `given`.
Dispatch(name, given, m, u, h, b, t, outcome) ==
    \E order \in Orders(DOMAIN unwrap_or_default(h)) :
      \E r \in {request(m, u, h, b, t, order, outcome)} :
            /\ pc' = "returned"
            /\ op' = name
            /\ callerHeaders' = given
            /\ method' = m
            /\ url' = u
            /\ headers' = h
            /\ body' = b
            /\ timeout' = t
            /\ req' = r.req
            /\ exchanges' = r.exchanges
            /\ raw' = r.raw
            /\ ret' = r.ret
            /\ got' = None

\* ------------------------------------------------------------ JSON
\* A body is a sequence of lexical tokens: punctuation, the number 1, the
\* string literals "a" and "b", and white space.
Ws == " "
StrA == "\"a\""
StrB == "\"b\""
NumTokens == {"1"}
\* String literals in the order of their contents (serde_json's Map is a
\* BTreeMap: it keeps its keys sorted).
StrTokens == <<StrA, StrB>>
IsStr(tok) == \E i \in 1..Len(StrTokens) : StrTokens[i] = tok

\* The first position at or after i that holds no white space.
RECURSIVE SkipWs(_, _)
SkipWs(toks, i) ==
    IF i <= Len(toks) /\ toks[i] = Ws THEN SkipWs(toks, i + 1) ELSE i

ParseFail == [ok |-> FALSE, next |-> 0, val |-> [t |-> "none"]]
Parsed(v, n) == [ok |-> TRUE, next |-> n, val |-> v]

\* serde_json's recursive-descent parser of a Value, from position i.
RECURSIVE ParseValue(_, _), ParseElems(_, _, _), ParseMembers(_, _, _)
ParseValue(toks, i0) ==
    LET i == SkipWs(toks, i0)
    IN  IF i > Len(toks) THEN ParseFail
        ELSE IF toks[i] \in NumTokens THEN Parsed([t |-> "num", text |-> toks[i]], i + 1)
        ELSE IF IsStr(toks[i]) THEN Parsed([t |-> "str", text |-> toks[i]], i + 1)
        ELSE IF toks[i] = "["
        THEN LET j == SkipWs(toks, i + 1)
             IN  IF j <= Len(toks) /\ toks[j] = "]"
                 THEN Parsed([t |-> "arr", items |-> <<>>], j + 1)
                 ELSE ParseElems(toks, j, <<>>)
        ELSE IF toks[i] = "{"
        THEN LET j == SkipWs(toks, i + 1)
             IN  IF j <= Len(toks) /\ toks[j] = "}"
                 THEN Parsed([t |-> "obj", members |-> EmptyMap], j + 1)
                 ELSE ParseMembers(toks, j, EmptyMap)
        ELSE ParseFail

\* The elements of an array after "[" or ",": a value, then "," or "]".
ParseElems(toks, i, acc) ==
    LET e == ParseValue(toks, i)
    IN  IF ~e.ok THEN ParseFail
        ELSE LET j == SkipWs(toks, e.next)
                 items == Append(acc, e.val)
             IN  IF j > Len(toks) THEN ParseFail
                 ELSE IF toks[j] = "]" THEN Parsed([t |-> "arr", items |-> items], j + 1)
                 ELSE IF toks[j] = "," THEN ParseElems(toks, j + 1, items)
                 ELSE ParseFail

\* The members of an object after "{" or ",": a string key, ":", a value,
\* then "," or "}".  A repeated key replaces the earlier member.
ParseMembers(toks, i0, acc) ==
    LET i == SkipWs(toks, i0)
    IN  IF i > Len(toks) \/ ~IsStr(toks[i]) THEN ParseFail
        ELSE LET c == SkipWs(toks, i + 1)
             IN  IF c > Len(toks) \/ toks[c] # ":" THEN ParseFail
                 ELSE LET v == ParseValue(toks, c + 1)
                      IN  IF ~v.ok THEN ParseFail
                          ELSE LET j == SkipWs(toks, v.next)
                                   members == insert(acc, toks[i], v.val)
                               IN  IF j > Len(toks) THEN ParseFail
                                   ELSE IF toks[j] = "}"
                                   THEN Parsed([t |-> "obj", members |-> members], j + 1)
                                   ELSE IF toks[j] = ","
                                   THEN ParseMembers(toks, j + 1, members)
                                   ELSE ParseFail

\* serde_json::from_str::<Value>: one value, then nothing but white space.
from_str(toks) ==
    LET v == ParseValue(toks, 1)
    IN  IF v.ok /\ SkipWs(toks, v.next) > Len(toks) THEN v ELSE ParseFail

\* Value::to_string: the compact serialization, no white space, the keys of
\* an object in sorted order.
RECURSIVE to_string(_), JoinItems(_, _), JoinMembers(_, _)
to_string(v) ==
    IF v.t \in {"num", "str"} THEN <<v.text>>
    ELSE IF v.t = "arr" THEN <<"[">> \o JoinItems(v.items, 1) \o <<"]">>
    ELSE <<"{">> \o JoinMembers(v.members, 1) \o <<"}">>
JoinItems(items, i) ==
    IF i > Len(items) THEN <<>>
    ELSE (IF i > 1 THEN <<",">> ELSE <<>>) \o to_string(items[i]) \o JoinItems(items, i + 1)
JoinMembers(members, k) ==
    IF k > Len(StrTokens) THEN <<>>
    ELSE IF StrTokens[k] \notin DOMAIN members THEN JoinMembers(members, k + 1)
    ELSE (IF \E l \in 1..(k - 1) : StrTokens[l] \in DOMAIN members THEN <<",">> ELSE <<>>)
         \o <<StrTokens[k], ":">> \o to_string(members[StrTokens[k]])
         \o JoinMembers(members, k + 1)

\* ------------------------------------------------------------ HttpResponse
HttpResponse_status(self) == self.status

\* A lookup that does not lower-case the queried name.
HttpResponse_headers_verbatim(self, name) ==
    IF name \in DOMAIN self.headers THEN Some(self.headers[name]) ELSE None

\* self.headers.get(&name.to_lowercase()).cloned()
HttpResponse_headers(self, name) ==
    IF to_lowercase(name) \in DOMAIN self.headers
    THEN Some(self.headers[to_lowercase(name)])
    ELSE None

HttpResponse_body(self) == self.body

\* A json() that answers a parse failure with the empty mapping.
HttpResponse_json_silent(self) ==
    LET parsed == from_str(self.body)
    IN  IF parsed.ok /\ parsed.val.t = "obj"
        THEN [value |-> Some([k \in DOMAIN parsed.val.members |->
                                to_string(parsed.val.members[k])]),
              err |-> None]
        ELSE [value |-> Some(EmptyMap), err |-> None]

\* json(): an object gives its members re-serialized, any other value the
\* empty mapping, a parse failure an exception.
HttpResponse_json(self) ==
    LET parsed == from_str(self.body)
    IN  IF parsed.ok
        THEN [value |-> Some(IF parsed.val.t = "obj"
                             THEN [k \in DOMAIN parsed.val.members |->
                                     to_string(parsed.val.members[k])]
                             ELSE EmptyMap),
              err |-> None]
        ELSE [value |-> None,
              err |-> Some(PhpException("JsonParseError", <<>>, NoCause))]

\* ------------------------------------------------------------ inputs
\* Method strings a caller may pass to request.
Methods ==
    {GET, <<"g","e","t">>, <<"G","e","t">>, POST, <<"p","o","s","t">>, PUT,
     <<"p","u","t">>, DELETE, PATCH, <<"p","a","t","c","h">>, HEAD,
     <<"h","e","a","d">>, OPTIONS, <<"o","p","t","i","o","n","s">>,
     <<"T","R","A","C","E">>, <<"G","E","T","S">>, <<>>}

Urls == {"http://a.test/"}

ReqNames == {ContentTypeLower, ContentTypeExact, ContentTypeUpper, XId}
ReqValues == {"text/plain"}
HeaderMaps ==
    UNION {[S -> ReqValues] : S \in {T \in SUBSET ReqNames : Cardinality(T) <= MaxReqHeaders}}
HeaderArgs == {None} \cup {Some(m) : m \in HeaderMaps}
NoHeaderArgs == {None}

BodyArgs == {None, Some("{}")}
TimeoutArgs == {None} \cup {Some(t) : t \in {0, 1, ShorthandTimeout, -1, I32Max, I32Min}}

XTest == <<"X","-","T","e","s","t">>
XTestLower == <<"x","-","t","e","s","t">>
XTestUpper == <<"X","-","T","E","S","T">>
Date == <<"D","a","t","e">>
ETag == <<"E","T","a","g">>
RespNames == {XTest, XTestLower, Date}
RespValues == {"1", "2", NonText}
HeaderLists ==
    UNION {[1..n -> RespNames \X RespValues] : n \in 0..MaxRespHeaders}
\* Names a caller asks a response for.
Queries == {XTest, XTestLower, XTestUpper, <<"d","a","t","e">>, ETag}

Statuses == {100, 200, 304, 399, 400, 404, 599}
Failures == {Failed("dns"), Failed("timed out")}

\* The network of the dispatcher's specification.
NetBasic ==
    {Failed("dns")} \cup
    {Delivered(s, <<<<XTest, "1">>>>, b) : s \in {200, 404}, b \in {Some(<<"1">>), None}}

\* The network of the response's specification: every status, every header list.
NetRich ==
    Failures \cup
    {Delivered(s, hl, b) : s \in Statuses, hl \in HeaderLists, b \in {Some(<<"1">>), None}}

\* Bodies: every sequence of up to MaxBodyLen tokens without white space and
\* "b", and longer samples with them.
ShortTokens == {"{", "}", "[", "]", ":", ",", "1", StrA}
SampleBodies ==
    {<<"{", StrA, ":", Ws, "1", ",", Ws, StrB, ":", StrA, "}">>,
     <<"{", StrB, ":", "1", ",", StrA, ":", "[", "1", ",", Ws, "1", "]", "}">>,
     <<"{", StrA, ":", "1", ",", StrA, ":", StrB, "}">>,
     <<"{", StrA, ":", "{", StrB, ":", "1", ",", StrA, ":", "1", "}", "}">>,
     <<Ws, "[", "1", ",", "1", ",", "1", "]", Ws>>,
     <<Ws, StrB, Ws>>,
     <<"{", StrA, ":", "1", "}", "1">>,
     <<"{", StrA, ":", "1", ",", "}">>,
     <<"{", "1", ":", StrA, "}">>,
     <<"{", StrA, Ws, "1", "}">>,
     <<Ws>>}
JsonBodies == UNION {[1..n -> ShortTokens] : n \in 0..MaxBodyLen} \cup SampleBodies
NetJson == {Delivered(200, <<>>, Some(b)) : b \in JsonBodies}

\* ------------------------------------------------------------ actions
Init ==
    /\ pc = "idle"
    /\ op = "none"
    /\ callerHeaders = None
    /\ method = <<>>
    /\ url = ""
    /\ headers = None
    /\ body = None
    /\ timeout = None
    /\ req = None
    /\ exchanges = 0
    /\ raw = None
    /\ ret = [resp |-> None, err |-> None]
    /\ got = None

Request(Net) ==
    /\ pc = "idle"
    /\ \E m \in Methods, u \in Urls, h \in HeaderArgs, b \in BodyArgs,
       t \in TimeoutArgs, o \in Net :
        Dispatch("request", h, m, u, h, b, t, o)

Get(Hs, Net) ==
    /\ pc = "idle"
    /\ \E u \in Urls, h \in Hs, o \in Net :
        Dispatch("get", h, GET, u, h, None, Some(ShorthandTimeout), o)

Post(Net) ==
    /\ pc = "idle"
    /\ \E u \in Urls, b \in BodyArgs, h \in HeaderArgs, o \in Net :
        LET final_headers == ContentTypeDefault(unwrap_or_default(h))
        IN  Dispatch("post", h, POST, u, Some(final_headers), b,
                     Some(ShorthandTimeout), o)

Put(Net) ==
    /\ pc = "idle"
    /\ \E u \in Urls, b \in BodyArgs, h \in HeaderArgs, o \in Net :
        LET final_headers == ContentTypeDefault(unwrap_or_default(h))
        IN  Dispatch("put", h, PUT, u, Some(final_headers), b,
                     Some(ShorthandTimeout), o)

Delete(Net) ==
    /\ pc = "idle"
    /\ \E u \in Urls, h \in HeaderArgs, o \in Net :
        Dispatch("delete", h, DELETE, u, h, None, Some(ShorthandTimeout), o)

Patch(Net) ==
    /\ pc = "idle"
    /\ \E u \in Urls, b \in BodyArgs, h \in HeaderArgs, o \in Net :
        LET final_headers == ContentTypeDefault(unwrap_or_default(h))
        IN  Dispatch("patch", h, PATCH, u, Some(final_headers), b,
                     Some(ShorthandTimeout), o)

HeadReq(Net) ==
    /\ pc = "idle"
    /\ \E u \in Urls, h \in HeaderArgs, o \in Net :
        Dispatch("head", h, HEAD, u, h, None, Some(ShorthandTimeout), o)

Options(Net) ==
    /\ pc = "idle"
    /\ \E u \in Urls, h \in HeaderArgs, o \in Net :
        Dispatch("options", h, OPTIONS, u, h, None, Some(ShorthandTimeout), o)

\* An accessor call on the response the caller holds.
Access(acc, arg, out) ==
    /\ pc = "returned"
    /\ IsSome(ret.resp)
    /\ got' = Some([acc |-> acc, arg |-> arg, out |-> out])
    /\ UNCHANGED <<pc, op, callerHeaders, method, url, headers, body, timeout,
                   req, exchanges, raw, ret>>

Status == pc = "returned" /\ IsSome(ret.resp)
          /\ Access("status", <<>>, HttpResponse_status(Unwrap(ret.resp)))

Headers ==
    \E name \in Queries :
        pc = "returned" /\ IsSome(ret.resp)
        /\ Access("headers", name, HttpResponse_headers(Unwrap(ret.resp), name))

Body == pc = "returned" /\ IsSome(ret.resp)
        /\ Access("body", <<>>, HttpResponse_body(Unwrap(ret.resp)))

Json == pc = "returned" /\ IsSome(ret.resp)
        /\ Access("json", <<>>, HttpResponse_json(Unwrap(ret.resp)))

\* The dispatcher and the shorthands, over every argument.
Next ==
    \/ Request(NetBasic)
    \/ Get(HeaderArgs, NetBasic)
    \/ Post(NetBasic)
    \/ Put(NetBasic)
    \/ Delete(NetBasic)
    \/ Patch(NetBasic)
    \/ HeadReq(NetBasic)
    \/ Options(NetBasic)

Spec == Init /\ [][Next]_vars

\* A response of any status and header list, and its accessors.
NextResponse ==
    \/ Get(NoHeaderArgs, NetRich)
    \/ Status
    \/ Headers
    \/ Body

SpecResponse == Init /\ [][NextResponse]_vars

\* A response of any body, and json().
NextJson ==
    \/ Get(NoHeaderArgs, NetJson)
    \/ Json

SpecJson == Init /\ [][NextJson]_vars

\* ------------------------------------------------------------ properties
Returned == pc = "returned"
TheReq == Unwrap(req)
TheRaw == Unwrap(raw)
TheResp == Unwrap(ret.resp)
TheErr == Unwrap(ret.err)
\* The seven verbs the library documents.
RecognizedVerbs == {GET, POST, PUT, DELETE, PATCH, HEAD, OPTIONS}

\* The number of seconds held in a u64 whose upper half is zero.
LowSecs(secs) == secs[1] + Limb * secs[2]

\* C1: a method whose upper-cased form is one of the seven recognized verbs
\* reaches the transport with that verb and never fails as unsupported; the
\* options shorthand reaches it with verb OPTIONS, no body and timeout 30.
C1_RecognizedVerbReachesTransport ==
    (Returned /\ to_uppercase(method) \in RecognizedVerbs) =>
        /\ IsSome(req)
        /\ exchanges = 1
        /\ TheReq.method = to_uppercase(method)
        /\ ~(IsSome(ret.err) /\ TheErr.kind = "UnsupportedMethod")
        /\ op = "options" =>
              /\ TheReq.method = OPTIONS
              /\ TheReq.body = None
              /\ TheReq.timeout = Some(<<ShorthandTimeout, 0, 0, 0>>)

\* C2: a method whose upper-cased form is not a recognized verb fails with
\* UnsupportedMethod carrying the string as given, and the call builds no
\* transport request, configures nothing and exchanges nothing.
C2_UnsupportedMethodBeforeNetwork ==
    (Returned /\ to_uppercase(method) \notin RecognizedVerbs) =>
        /\ ret.resp = None
        /\ IsSome(ret.err)
        /\ TheErr.kind = "UnsupportedMethod"
        /\ TheErr.method = method
        /\ req = None
        /\ exchanges = 0
        /\ raw = None

C2_Witness ==
    /\ Returned
    /\ method = <<"G","E","T","S">>
    /\ timeout = Some(1)
    /\ IsSome(headers)
    /\ IsSome(ret.err)
    /\ TheErr.kind = "UnsupportedMethod"
    /\ exchanges = 0

\* C3: post, put and patch hand the dispatcher the caller's mapping plus the
\* one entry Content-Type: application/json when the mapping (or its absence)
\* holds neither the key content-type nor the key Content-Type, and the
\* caller's mapping unchanged when it holds either.
C3_ContentTypeDefault ==
    (Returned /\ op \in {"post", "put", "patch"}) =>
        LET given == unwrap_or_default(callerHeaders)
        IN  /\ IsSome(headers)
            /\ IF ContentTypeLower \notin DOMAIN given /\ ContentTypeExact \notin DOMAIN given
               THEN /\ DOMAIN Unwrap(headers) = (DOMAIN given) \cup {ContentTypeExact}
                    /\ Cardinality(DOMAIN Unwrap(headers)) = Cardinality(DOMAIN given) + 1
                    /\ Unwrap(headers)[ContentTypeExact] = "application/json"
                    /\ \A k \in DOMAIN given : Unwrap(headers)[k] = given[k]
               ELSE Unwrap(headers) = given

C3_Witness ==
    /\ Returned
    /\ op = "patch"
    /\ IsSome(callerHeaders)
    /\ DOMAIN Unwrap(callerHeaders) = {ContentTypeLower, XId}
    /\ Unwrap(headers) = Unwrap(callerHeaders)
    /\ Unwrap(headers)[ContentTypeLower] = "text/plain"

\* The header lines of the delivered response whose name is `name`, letter
\* case ignored.
LinesNamed(name) ==
    {i \in 1..Len(TheRaw.headers) : to_lowercase(TheRaw.headers[i][1]) = to_lowercase(name)}
FirstLine(name) == CHOOSE i \in LinesNamed(name) : \A j \in LinesNamed(name) : i <= j
LastLine(name) == CHOOSE i \in LinesNamed(name) : \A j \in LinesNamed(name) : j <= i
IsLowerCase(name) == \A i \in 1..Len(name) : name[i] = LowerChar(name[i])
HeadersAsked == Returned /\ IsSome(ret.resp) /\ IsSome(got) /\ Unwrap(got).acc = "headers"

\* C4: headers(q) answers with the value of the response's header whose name
\* equals q ignoring letter case (X-Test answers x-test, X-TEST and X-Test),
\* and with absent for a name the response does not carry; every key stored
\* by the dispatcher is lower-case.  Of several lines of one name the first
\* decides, and a value that is not text is not stored.
C4_HeaderLookupIgnoresCase ==
    /\ (Returned /\ IsSome(ret.resp)) =>
          \A k \in DOMAIN TheResp.headers : IsLowerCase(k)
    /\ HeadersAsked =>
          LET q == Unwrap(got).arg
              out == Unwrap(got).out
          IN  IF LinesNamed(q) = {} THEN out = None
              ELSE IF IsText(TheRaw.headers[FirstLine(q)][2])
              THEN out = Some(TheRaw.headers[FirstLine(q)][2])
              ELSE out = None

C4_Witness ==
    /\ HeadersAsked
    /\ Unwrap(got).arg = XTestUpper
    /\ TheRaw.headers = <<<<XTest, "1">>, <<Date, "2">>>>
    /\ Unwrap(got).out = Some("1")

\* Two lines of one name (letter case ignored), both of text, of different values.
Repeated(i, j) ==
    /\ i < j
    /\ to_lowercase(TheRaw.headers[i][1]) = to_lowercase(TheRaw.headers[j][1])
    /\ IsText(TheRaw.headers[i][2])
    /\ IsText(TheRaw.headers[j][2])
    /\ TheRaw.headers[i][2] # TheRaw.headers[j][2]

\* C5 as stated: when the transport's response carries one name more than
\* once with different values, the Response stores under the lower-cased
\* name the value of the last occurrence.
C5_LastValueWins ==
    (Returned /\ IsSome(ret.resp)) =>
        \A i, j \in 1..Len(TheRaw.headers) :
            (Repeated(i, j) /\ j = LastLine(TheRaw.headers[j][1])) =>
                /\ to_lowercase(TheRaw.headers[j][1]) \in DOMAIN TheResp.headers
                /\ TheResp.headers[to_lowercase(TheRaw.headers[j][1])] = TheRaw.headers[j][2]

\* C5 amended: the Response stores under the lower-cased name the value of
\* the first occurrence of the name in the transport's header list, and
\* does not store the name when that first value is not text.
C5_FirstValueWins ==
    (Returned /\ IsSome(ret.resp)) =>
        /\ \A i \in 1..Len(TheRaw.headers) :
              LET name == TheRaw.headers[i][1]
                  first == TheRaw.headers[FirstLine(name)][2]
              IN  IF IsText(first)
                  THEN /\ to_lowercase(name) \in DOMAIN TheResp.headers
                       /\ TheResp.headers[to_lowercase(name)] = first
                  ELSE to_lowercase(name) \notin DOMAIN TheResp.headers
        /\ \A k \in DOMAIN TheResp.headers : LinesNamed(k) # {}

C5_Witness ==
    /\ Returned
    /\ IsSome(ret.resp)
    /\ TheRaw.headers = <<<<XTest, "1">>, <<XTestLower, "2">>>>
    /\ TheResp.headers[XTestLower] = "1"

JsonAsked == Returned /\ IsSome(ret.resp) /\ IsSome(got) /\ Unwrap(got).acc = "json"

\* C6: json() has three outcomes decided by the body: a well-formed object
\* gives a mapping of exactly the object's top-level keys, each to the
\* re-serialized text of its value; a well-formed array or scalar gives the
\* empty mapping without error; a malformed body fails with JsonParseError
\* and gives no mapping.
C6_JsonThreeOutcomes ==
    JsonAsked =>
        LET parsed == from_str(TheResp.body)
            out == Unwrap(got).out
        IN  /\ TheResp.body = Unwrap(TheRaw.body)
            /\ IF ~parsed.ok
               THEN /\ out.value = None
                    /\ IsSome(out.err)
                    /\ Unwrap(out.err).kind = "JsonParseError"
               ELSE /\ out.err = None
                    /\ IsSome(out.value)
                    /\ IF parsed.val.t = "obj"
                       THEN /\ DOMAIN Unwrap(out.value) = DOMAIN parsed.val.members
                            /\ \A k \in DOMAIN parsed.val.members :
                                  Unwrap(out.value)[k] = to_string(parsed.val.members[k])
                       ELSE DOMAIN Unwrap(out.value) = {}

C6_Witness ==
    /\ JsonAsked
    /\ TheResp.body = <<"{", StrA, ":", Ws, "1", ",", Ws, StrB, ":", StrA, "}">>
    /\ Unwrap(got).out.err = None
    /\ DOMAIN Unwrap(Unwrap(got).out.value) = {StrA, StrB}
    /\ Unwrap(Unwrap(got).out.value)[StrA] = <<"1">>
    /\ Unwrap(Unwrap(got).out.value)[StrB] = <<StrA>>

\* C7: whenever the exchange delivers a response, whatever its status, the
\* call returns a Response of that status; HttpRequestFailed is produced
\* only when the transport itself failed.
C7_DeliveredStatusIsReturned ==
    (Returned /\ IsSome(raw)) =>
        /\ (TheRaw.kind = "http" /\ IsSome(TheRaw.body)) =>
              /\ IsSome(ret.resp)
              /\ HttpResponse_status(TheResp) = TheRaw.status
        /\ (IsSome(ret.err) /\ TheErr.kind = "HttpRequestFailed") => TheRaw.kind = "fail"

Effective(hs) ==
    [n \in {to_lowercase(hs[i][1]) : i \in 1..Len(hs)} |->
        hs[CHOOSE i \in 1..Len(hs) :
              /\ to_lowercase(hs[i][1]) = n
              /\ \A j \in 1..Len(hs) : to_lowercase(hs[j][1]) = n => j <= i][2]]

\* C9: the order in which the dispatcher applies the entries of the header
\* mapping does not affect the outgoing request: every iteration order gives
\* the same headers and values, last write winning per name.
C9_HeaderOrderIrrelevant ==
    (Returned /\ IsSome(req) /\ IsSome(headers)) =>
        \A o \in Orders(DOMAIN Unwrap(headers)) :
            Effective(ApplyHeaders(<<>>, Unwrap(headers), o)) = Effective(TheReq.headers)

\* C10 as stated: a timeout t configures the transport's timeout to exactly
\* t seconds, whatever 32-bit t is; no timeout configures none.
C10_TimeoutExact ==
    (Returned /\ IsSome(req)) =>
        IF IsSome(timeout)
        THEN /\ IsSome(TheReq.timeout)
             /\ Unwrap(TheReq.timeout)[3] = 0
             /\ Unwrap(TheReq.timeout)[4] = 0
             /\ LowSecs(Unwrap(TheReq.timeout)) = Unwrap(timeout)
        ELSE TheReq.timeout = None

\* C10 amended: a timeout t >= 0 configures exactly t seconds; a negative t
\* configures t + 2^64 seconds (the two's complement of t read as unsigned:
\* all bits of the upper half set, the lower half the complement of -t - 1);
\* no timeout configures none.
C10_TimeoutSignExtended ==
    (Returned /\ IsSome(req)) =>
        IF IsNone(timeout) THEN TheReq.timeout = None
        ELSE LET t == Unwrap(timeout)
                 secs == Unwrap(TheReq.timeout)
             IN  /\ IsSome(TheReq.timeout)
                 /\ IF t >= 0
                    THEN secs[3] = 0 /\ secs[4] = 0 /\ LowSecs(secs) = t
                    ELSE /\ secs[3] = Limb - 1
                         /\ secs[4] = Limb - 1
                         /\ (Limb - 1 - secs[1]) + Limb * (Limb - 1 - secs[2]) = -(t + 1)

C10_Witness ==
    /\ Returned
    /\ op = "request"
    /\ timeout = Some(-1)
    /\ IsSome(req)
    /\ TheReq.timeout = Some(<<Limb - 1, Limb - 1, Limb - 1, Limb - 1>>)
====
